---- MODULE Spec2Model ----
(***************************************************************************)
(* Model of the timeline application (src/app): the entity lists kept by   *)
(* the tabs, the view state of TimelineTab (filters, date window, auto     *)
(* dates, zoom) and the layout pass of PrettyTimelineView.refresh.         *)
(*                                                                         *)
(* Encoding of values                                                      *)
(*   date strings  : an integer; d >= 1 is the text "yyyy-MM-dd" of day    *)
(*                   number d, EmptyStr (0) is "", BadStr (-1) is any text *)
(*                   strptime rejects.                                     *)
(*   datetime/QDate: the day number (>= 1); None (0) is Python's None.     *)
(*   scale_factor  : the exact rational <<num, den>> in lowest terms.      *)
(*   x and width   : half pixels (suffix 2), so that 210/28 = 7.5 px per   *)
(*                   day is exact; y and height are pixels.                *)
(***************************************************************************)
EXTENDS Integers, Sequences, FiniteSets, TLC

VARIABLES
    characters,     \* CharactersTab.chars: sequence of character names
    places,         \* PlacesTab.places: sequence of place names
    events,         \* EventsTab.events: sequence of Event records
    sel_chars,      \* selected items of TimelineTab.char_filter
    sel_places,     \* selected items of TimelineTab.place_filter
    date_from,      \* TimelineTab.date_from (QDateEdit)
    date_to,        \* TimelineTab.date_to (QDateEdit)
    auto_dates,     \* TimelineTab.auto_dates (QCheckBox)
    scale_factor,   \* PrettyTimelineView.scale_factor
    scene,          \* what the last PrettyTimelineView.refresh drew
    ui,             \* position of the info-icon interaction
    saved,          \* content of the project's data.json
    last            \* the last handler that ran: [op |-> name, ...]

vars == <<characters, places, events, sel_chars, sel_places, date_from,
          date_to, auto_dates, scale_factor, scene, ui, saved, last>>

----------------------------------------------------------------------------
(* Bounds of the model *)

MaxDay == 2
MaxZoomSteps == 2
MaxStack == 6
MaxZoom100 == 130

(* the most entries one list of data.json holds *)
MaxItems == 1

(* Program constants *)

ROW_H == 100
LEFT_MARGIN == 180
TOP_MARGIN == 100
X_STEP_MIN == 210

EmptyStr == 0
BadStr == -1
None == 0

CharNames == {"Alice", "Bob"}
PlaceNames == {"Castle", "Forest"}

Days == 1..MaxDay
Today == MaxDay

----------------------------------------------------------------------------
(* Generic helpers *)

Max(a, b) == IF a >= b THEN a ELSE b
Min(a, b) == IF a <= b THEN a ELSE b
SetMin(S) == CHOOSE m \in S : \A n \in S : m <= n
SetMax(S) == CHOOSE m \in S : \A n \in S : m >= n
Range(s) == {s[i] : i \in 1..Len(s)}

RECURSIVE GCD(_, _)
GCD(a, b) == IF b = 0 THEN a ELSE GCD(b, a % b)

RECURSIVE Pow(_, _)
Pow(b, n) == IF n = 0 THEN 1 ELSE b * Pow(b, n - 1)

(* the subsequence of s at the indices in I, in increasing index order *)
RECURSIVE Pick(_, _, _)
Pick(s, I, i) ==
    IF i > Len(s) THEN <<>>
    ELSE (IF i \in I THEN <<s[i]>> ELSE <<>>) \o Pick(s, I, i + 1)

(* the names of `order` that are in S, in the order of `order` *)
InOrder(order, S) == SelectSeq(order, LAMBDA n : n \in S)

----------------------------------------------------------------------------
(* timeline.py: module-level helpers *)

ParseDate(s) == IF s >= 1 THEN s ELSE None

(* QDate.toString("yyyy-MM-dd") / datetime.strftime("%Y-%m-%d") *)
DateToString(d) == d

----------------------------------------------------------------------------
(* PrettyTimelineView._lod *)

(* faulty variant: the far and the near tier have changed places *)
LodSwapped(z) ==
    IF z[1] * 100 < 95 * z[2] THEN
        [tick_days |-> 3, thumb |-> 68, title_mode |-> "full",
         show_date |-> TRUE, show_desc |-> TRUE, max_chips |-> 4,
         event_w |-> 320, event_h |-> 108]
    ELSE IF z[1] * 100 < 120 * z[2] THEN
        [tick_days |-> 7, thumb |-> 52, title_mode |-> "abbr3",
         show_date |-> TRUE, show_desc |-> FALSE, max_chips |-> 2,
         event_w |-> 260, event_h |-> 86]
    ELSE
        [tick_days |-> 28, thumb |-> 44, title_mode |-> "none",
         show_date |-> FALSE, show_desc |-> FALSE, max_chips |-> 0,
         event_w |-> 220, event_h |-> 72]

(* faulty variant: the 3-day tier begins at a zoom factor of 1.30 *)
LodLateDetail(z) ==
    IF z[1] * 100 < 95 * z[2] THEN
        [tick_days |-> 28, thumb |-> 44, title_mode |-> "none",
         show_date |-> FALSE, show_desc |-> FALSE, max_chips |-> 0,
         event_w |-> 220, event_h |-> 72]
    ELSE IF z[1] * 100 < 130 * z[2] THEN
        [tick_days |-> 7, thumb |-> 52, title_mode |-> "abbr3",
         show_date |-> TRUE, show_desc |-> FALSE, max_chips |-> 2,
         event_w |-> 260, event_h |-> 86]
    ELSE
        [tick_days |-> 3, thumb |-> 68, title_mode |-> "full",
         show_date |-> TRUE, show_desc |-> TRUE, max_chips |-> 4,
         event_w |-> 320, event_h |-> 108]

Lod(z) ==
    IF z[1] * 100 < 95 * z[2] THEN
        [tick_days |-> 28, thumb |-> 44, title_mode |-> "none",
         show_date |-> FALSE, show_desc |-> FALSE, max_chips |-> 0,
         event_w |-> 220, event_h |-> 72]
    ELSE IF z[1] * 100 < 120 * z[2] THEN
        [tick_days |-> 7, thumb |-> 52, title_mode |-> "abbr3",
         show_date |-> TRUE, show_desc |-> FALSE, max_chips |-> 2,
         event_w |-> 260, event_h |-> 86]
    ELSE
        [tick_days |-> 3, thumb |-> 68, title_mode |-> "full",
         show_date |-> TRUE, show_desc |-> TRUE, max_chips |-> 4,
         event_w |-> 320, event_h |-> 108]

----------------------------------------------------------------------------
(* PrettyTimelineView.refresh: the layout pass *)

NoRow == -1

(* every parseable start and end date of the events handed in *)
AllDates(evs) ==
    ({ParseDate(evs[i].start_date) : i \in 1..Len(evs)} \cup
     {ParseDate(evs[i].end_date) : i \in 1..Len(evs)}) \ {None}

(* faulty variant: the smaller of the two step widths *)
StepPxUnclamped == Min(X_STEP_MIN, 140)

(* step_px = max(X_STEP_MIN, int(140 * 1.0)) *)
StepPx == Max(X_STEP_MIN, 140)

(* dmin = min(dates) - timedelta(days=1) *)
Origin(evs) == SetMin(AllDates(evs)) - 1

(* faulty variant: the left margin is left out *)
XFor2NoMargin(dt, dmin, L) ==
    ((dt - dmin) * 2 * StepPx) \div L.tick_days

(* x_for, in half pixels *)
XFor2(dt, dmin, L) ==
    2 * LEFT_MARGIN + ((dt - dmin) * 2 * StepPx) \div L.tick_days

(* faulty variant: the rows are counted from the end of the place list *)
RowIdxFromEnd(pls, place_name) ==
    IF \E i \in 1..Len(pls) : pls[i] = place_name
    THEN Len(pls) - SetMin({i \in 1..Len(pls) : pls[i] = place_name})
    ELSE NoRow

(* next((i for i, pl in enumerate(places) if pl.name == place_name), None) *)
RowIdx(pls, place_name) ==
    IF \E i \in 1..Len(pls) : pls[i] = place_name
    THEN SetMin({i \in 1..Len(pls) : pls[i] = place_name}) - 1
    ELSE NoRow

(* getattr(ev, "places", []) or [""] *)
EventPlaces(ev) == IF ev.places = <<>> THEN <<"">> ELSE ev.places

(* faulty variant: the offset grows with every card of the group *)
StackOffsetUncapped(idx) ==
    IF idx = 0 THEN 0
    ELSE (IF idx % 2 = 0 THEN 1 ELSE -1) * (idx * 16)

(* (-1)**idx * (min(idx, 3) * 16), applied only when idx is not 0 *)
StackOffset(idx) ==
    IF idx = 0 THEN 0
    ELSE (IF idx % 2 = 0 THEN 1 ELSE -1) * (Min(idx, 3) * 16)

(* fill alpha of the card *)
FillAlpha(ev, selected) ==
    IF ev.characters # <<>>
    THEN (IF selected = {} \/ (selected \cap Range(ev.characters)) # {}
          THEN 200 ELSE 90)
    ELSE 255

(* TRUE when the border is the muted grey instead of the tint/CARD_BORDER *)
BorderMuted(ev, selected) ==
    IF ev.characters # <<>>
    THEN ~(selected = {} \/ (selected \cap Range(ev.characters)) # {})
    ELSE selected # {}

(* base colour: the first character's colour, "#9aa" when it is unknown,
   "#EFE7DE" for an event without characters *)
Tint(ev, chars) ==
    IF ev.characters # <<>>
    THEN (IF ev.characters[1] \in Range(chars) THEN ev.characters[1] ELSE "#9aa")
    ELSE "#EFE7DE"

(* faulty variant: the span of the dates, without the minimum width *)
RectWSpanOnly(sdt, edt, x_end, rect_left, min_width) == x_end - rect_left

(* rect_w: the span for a multi-day event, never below min_width *)
RectW(sdt, edt, x_end, rect_left, min_width) ==
    IF edt > sdt THEN Max(min_width, x_end - rect_left) ELSE min_width

(* one card: the body of the inner loop for a place that has a row *)
MakeCard(ev_idx, ev, place_name, row_idx, idx, dmin, L, chars, selected) ==
    LET sdt == ParseDate(ev.start_date)
        e0 == IF ParseDate(ev.end_date) # None THEN ParseDate(ev.end_date) ELSE sdt
        edt == IF e0 < sdt THEN sdt ELSE e0
        y_center == TOP_MARGIN + row_idx * ROW_H + ROW_H \div 2
        x_start == XFor2(sdt, dmin, L)
        x_end == XFor2(edt, dmin, L)
        min_left == 2 * (LEFT_MARGIN + 6)
        min_width == 2 * L.event_w
        rect_left == Max(min_left, x_start)
        rect_w == RectW(sdt, edt, x_end, rect_left, min_width)
        rect_h == L.event_h
    IN  [ev_index |-> ev_idx, ev |-> ev, place |-> place_name,
         row |-> row_idx, day |-> sdt,
         x2 |-> rect_left, y |-> y_center - rect_h \div 2 + StackOffset(idx),
         w2 |-> rect_w, h |-> rect_h,
         band |-> edt > sdt,
         alpha |-> FillAlpha(ev, selected),
         border_muted |-> BorderMuted(ev, selected),
         tint |-> Tint(ev, chars),
         chips |-> SubSeq(ev.characters, 1, Min(Len(ev.characters), L.max_chips)),
         show_date |-> L.show_date, show_desc |-> L.show_desc]

(* faulty variant of the loops: an event is dropped at its first place
   that has no row *)
RECURSIVE PlaceLoopBreaking(_, _, _, _, _, _, _, _, _)
PlaceLoopBreaking(evs, i, k, stack_map, dmin, L, chars, pls, selected) ==
    IF i > Len(evs) THEN <<>>
    ELSE LET ev == evs[i]
             names == EventPlaces(ev)
         IN  IF ParseDate(ev.start_date) = None \/ k > Len(names)
             THEN PlaceLoopBreaking(evs, i + 1, 1, stack_map, dmin, L, chars,
                                    pls, selected)
             ELSE LET row_idx == RowIdx(pls, names[k])
                      slot == <<row_idx, ParseDate(ev.start_date)>>
                      idx == IF slot \in DOMAIN stack_map THEN stack_map[slot] ELSE 0
                  IN  IF row_idx = NoRow
                      THEN PlaceLoopBreaking(evs, i + 1, 1, stack_map, dmin, L,
                                             chars, pls, selected)
                      ELSE <<MakeCard(i - 1, ev, names[k], row_idx, idx, dmin, L,
                                      chars, selected)>>
                           \o PlaceLoopBreaking(evs, i, k + 1,
                                  [s \in DOMAIN stack_map \cup {slot} |->
                                      IF s = slot THEN idx + 1 ELSE stack_map[s]],
                                  dmin, L, chars, pls, selected)

StackGet(stack_map, slot) == IF slot \in DOMAIN stack_map THEN stack_map[slot] ELSE 0

StackPut(stack_map, slot, n) ==
    [s \in DOMAIN stack_map \cup {slot} |-> IF s = slot THEN n ELSE stack_map[s]]

(* the two nested loops over events and their places; ev_idx is 0-based as
   in enumerate(events), k is the position in the event's place list *)
RECURSIVE PlaceLoop(_, _, _, _, _, _, _, _, _)
PlaceLoop(evs, i, k, stack_map, dmin, L, chars, pls, selected) ==
    IF i > Len(evs) THEN <<>>
    ELSE LET ev == evs[i]
             names == EventPlaces(ev)
         IN  IF ParseDate(ev.start_date) = None \/ k > Len(names)
             THEN PlaceLoop(evs, i + 1, 1, stack_map, dmin, L, chars, pls, selected)
             ELSE LET row_idx == RowIdx(pls, names[k])
                      slot == <<row_idx, ParseDate(ev.start_date)>>
                      idx == StackGet(stack_map, slot)
                  IN  IF row_idx = NoRow
                      THEN PlaceLoop(evs, i, k + 1, stack_map, dmin, L, chars,
                                     pls, selected)
                      ELSE <<MakeCard(i - 1, ev, names[k], row_idx, idx, dmin, L,
                                      chars, selected)>>
                           \o PlaceLoop(evs, i, k + 1,
                                        StackPut(stack_map, slot, idx + 1),
                                        dmin, L, chars, pls, selected)

EmptyMap == [s \in {} |-> 0]

(* faulty variant: the place list is not tested before the layout *)
RefreshWithoutPlaceTest(evs, chars, pls, selected, z) ==
    IF AllDates(evs) = {}
    THEN [nodata |-> TRUE, selected |-> selected, lod |-> Lod(z), cards |-> <<>>]
    ELSE [nodata |-> FALSE, selected |-> selected, lod |-> Lod(z),
          cards |-> PlaceLoop(evs, 1, 1, EmptyMap, Origin(evs), Lod(z),
                              chars, pls, selected)]

(* refresh(): events, characters and places are what the three getters
   return, selected is get_selected_chars_fn(), z the scale factor *)
Refresh(evs, chars, pls, selected, z) ==
    LET L == Lod(z)
        dates == AllDates(evs)
    IN  IF pls = <<>> \/ dates = {}
        THEN [nodata |-> TRUE, selected |-> selected, lod |-> L, cards |-> <<>>]
        ELSE [nodata |-> FALSE, selected |-> selected, lod |-> L,
              cards |-> PlaceLoop(evs, 1, 1, EmptyMap, Origin(evs), L,
                                  chars, pls, selected)]

----------------------------------------------------------------------------
(* TimelineTab: filter and date-range evaluation *)

(* faulty variant: the upper end of the window is exclusive *)
WithinDatesExclusive(ev, from, to) ==
    /\ ParseDate(ev.start_date) # None
    /\ ParseDate(ev.start_date) >= from
    /\ ParseDate(ev.start_date) < to

(* faulty variant: an event without a parseable start date passes *)
WithinDatesUndatedPass(ev, from, to) ==
    IF ParseDate(ev.start_date) = None THEN TRUE
    ELSE /\ ParseDate(ev.start_date) >= from
         /\ ParseDate(ev.start_date) <= to

WithinDates(ev, from, to) ==
    IF ev.start_date = EmptyStr THEN FALSE
    ELSE LET s == ParseDate(ev.start_date)
             f == ParseDate(DateToString(from))
             t == ParseDate(DateToString(to))
         IN  IF s = None THEN FALSE
             ELSE IF f # None /\ s < f THEN FALSE
             ELSE IF t # None /\ s > t THEN FALSE
             ELSE TRUE

PlaceOk(ev, selp) == IF selp = {} THEN TRUE ELSE (Range(ev.places) \cap selp) # {}

(* faulty variant: the filter also drops events without a selected character *)
GetEventsFilteredByChars(evs, selp, from, to) ==
    SelectSeq(evs, LAMBDA e :
        /\ WithinDates(e, from, to)
        /\ PlaceOk(e, selp)
        /\ (sel_chars = {} \/ (Range(e.characters) \cap sel_chars) # {}))

GetEventsFiltered(evs, selp, from, to) ==
    SelectSeq(evs, LAMBDA e : WithinDates(e, from, to) /\ PlaceOk(e, selp))

(* _init_date_defaults: the new <<date_from, date_to>> *)
InitDateDefaults(evs) ==
    LET dts == {ParseDate(evs[i].start_date) :
                    i \in {j \in 1..Len(evs) : evs[j].start_date # EmptyStr}} \ {None}
    IN  IF dts = {} THEN <<Today, Today>> ELSE <<SetMin(dts), SetMax(dts)>>

(* faulty variant: the window is taken from the events that match the
   character selection alone *)
AutoDatesIgnoringPlaces(evs, selc, selp) ==
    LET dts == {ParseDate(evs[i].start_date) :
                    i \in {j \in 1..Len(evs) :
                        /\ ParseDate(evs[j].start_date) # None
                        /\ (selc = {} \/ (Range(evs[j].characters) \cap selc) # {})}}
    IN  IF dts # {} THEN <<SetMin(dts), SetMax(dts)>> ELSE <<Today, Today>>

(* the date part of _maybe_auto_dates: the new <<date_from, date_to>> *)
AutoDates(evs, selc, selp) ==
    LET dts == {ParseDate(evs[i].start_date) :
                    i \in {j \in 1..Len(evs) :
                        /\ ParseDate(evs[j].start_date) # None
                        /\ (selc = {} \/ (Range(evs[j].characters) \cap selc) # {})
                        /\ (selp = {} \/ (Range(evs[j].places) \cap selp) # {})}}
    IN  IF dts # {} THEN <<SetMin(dts), SetMax(dts)>> ELSE <<Today, Today>>

(* self.graph.refresh() with the getters TimelineTab hands to the view *)
GraphRefresh(evs, chars, pls, selc, selp, from, to, z) ==
    Refresh(GetEventsFiltered(evs, selp, from, to), chars, pls, selc, z)

----------------------------------------------------------------------------
(* Inputs *)

TitleSeq == <<"e1", "e2", "e3", "e4", "e5", "e6", "e7", "e8">>

CharLists == {<<>>, <<"Alice">>, <<"Bob">>, <<"Alice", "Bob">>}
PlaceLists == {<<>>, <<"Castle">>, <<"Forest">>, <<"Castle", "Forest">>}

Event(title, sd, ed, chs, pls) ==
    [title |-> title, start_date |-> sd, end_date |-> ed,
     characters |-> chs, places |-> pls]

(* a sequence of event data with the titles e1, e2, ... put on *)
WithTitles(ds) ==
    [i \in 1..Len(ds) |-> Event(TitleSeq[i], ds[i].start_date, ds[i].end_date,
                                ds[i].characters, ds[i].places)]

(* all lists of at most n events over the data set D *)
ListsOver(D, n) == UNION {{WithTitles(ds) : ds \in [1..k -> D]} : k \in 0..n}

(* the stored events of the filter specification: two event identities, any
   start text, no end date *)
ViewTitles == <<"e1", "e2">>

ViewEventData ==
    {[start_date |-> sd, end_date |-> EmptyStr, characters |-> c, places |-> p] :
        sd \in Days \cup {EmptyStr, BadStr}, c \in CharLists, p \in PlaceLists}

ViewEventLists == ListsOver(ViewEventData, Len(ViewTitles))

----------------------------------------------------------------------------
(* State of the window once the events evs are loaded, the user has put the
   date window to [from, to] and the auto dates box to auto, and Apply has
   redrawn the view at scale factor z *)

AppliedTo(chars, pls, evs, from, to, auto, z) ==
    /\ characters = chars
    /\ places = pls
    /\ events = evs
    /\ sel_chars = {}
    /\ sel_places = {}
    /\ date_from = from
    /\ date_to = to
    /\ auto_dates = auto
    /\ scale_factor = z
    /\ scene = GraphRefresh(evs, characters, places, {}, {}, from, to, z)
    /\ ui = [at |-> "idle"]
    /\ saved = [characters |-> characters, places |-> places, events |-> evs]
    /\ last = [op |-> "init"]

(* the same for the project of the characters Alice and Bob and the places
   Castle and Forest *)
Applied(evs, from, to, auto, z) ==
    AppliedTo(<<"Alice", "Bob">>, <<"Castle", "Forest">>, evs, from, to, auto, z)

(* MainWindow._load_state_into_ui with the lists load_state returns *)
LoadedWith(chars, pls, evs) ==
    AppliedTo(chars, pls, evs, InitDateDefaults(evs)[1], InitDateDefaults(evs)[2],
              TRUE, <<1, 1>>)

(* MainWindow._load_state_into_ui: TimelineTab.__init__ then refresh *)
Loaded(evs) ==
    Applied(evs, InitDateDefaults(evs)[1], InitDateDefaults(evs)[2], TRUE, <<1, 1>>)

----------------------------------------------------------------------------
(* TimelineTab handlers *)

(* faulty variant: the window is set but the view is not redrawn *)
MaybeAutoDatesNoRedraw(selc, selp) ==
    IF ~auto_dates
    THEN UNCHANGED <<date_from, date_to, scene>>
    ELSE /\ date_from' = AutoDates(events, selc, selp)[1]
         /\ date_to' = AutoDates(events, selc, selp)[2]
         /\ UNCHANGED scene

(* _maybe_auto_dates with the selections selc and selp *)
MaybeAutoDates(selc, selp) ==
    IF ~auto_dates
    THEN UNCHANGED <<date_from, date_to, scene>>
    ELSE /\ date_from' = AutoDates(events, selc, selp)[1]
         /\ date_to' = AutoDates(events, selc, selp)[2]
         /\ scene' = GraphRefresh(events, characters, places, selc, selp,
                                  date_from', date_to', scale_factor)

(* the user toggles one item of char_filter: itemSelectionChanged *)
ToggleChar(c) ==
    /\ ui.at = "idle"
    /\ c \in Range(characters)
    /\ sel_chars' = IF c \in sel_chars THEN sel_chars \ {c} ELSE sel_chars \cup {c}
    /\ MaybeAutoDates(sel_chars', sel_places)
    /\ last' = [op |-> "ToggleChar"]
    /\ UNCHANGED <<saved, characters, places, events, sel_places, auto_dates,
                   scale_factor, ui>>

(* the user toggles one item of place_filter: itemSelectionChanged *)
TogglePlace(p) ==
    /\ ui.at = "idle"
    /\ p \in Range(places)
    /\ sel_places' = IF p \in sel_places THEN sel_places \ {p}
                     ELSE sel_places \cup {p}
    /\ MaybeAutoDates(sel_chars, sel_places')
    /\ last' = [op |-> "TogglePlace"]
    /\ UNCHANGED <<saved, characters, places, events, sel_chars, auto_dates,
                   scale_factor, ui>>

(* the user edits date_from: no slot is connected *)
SetDateFrom(d) ==
    /\ ui.at = "idle"
    /\ d # date_from
    /\ date_from' = d
    /\ last' = [op |-> "SetDateFrom"]
    /\ UNCHANGED <<saved, characters, places, events, sel_chars, sel_places, date_to,
                   auto_dates, scale_factor, scene, ui>>

(* the user edits date_to: no slot is connected *)
SetDateTo(d) ==
    /\ ui.at = "idle"
    /\ d # date_to
    /\ date_to' = d
    /\ last' = [op |-> "SetDateTo"]
    /\ UNCHANGED <<saved, characters, places, events, sel_chars, sel_places, date_from,
                   auto_dates, scale_factor, scene, ui>>

(* the user clicks the auto dates check box: no slot is connected *)
ToggleAutoDates ==
    /\ ui.at = "idle"
    /\ auto_dates' = ~auto_dates
    /\ last' = [op |-> "ToggleAutoDates"]
    /\ UNCHANGED <<saved, characters, places, events, sel_chars, sel_places, date_from,
                   date_to, scale_factor, scene, ui>>

(* TimelineTab.refresh: _populate_filters rebuilds both lists under a signal
   blocker, which drops their selections, then the view is redrawn *)
TabRefresh ==
    /\ sel_chars' = {}
    /\ sel_places' = {}
    /\ scene' = GraphRefresh(events', characters', places', {}, {},
                             date_from', date_to', scale_factor')

(* faulty variant: the window is left as it was *)
ClearKeepingWindow ==
    /\ ui.at = "idle"
    /\ UNCHANGED <<saved, characters, places, events, date_from, date_to,
                   auto_dates, scale_factor, ui>>
    /\ TabRefresh
    /\ last' = [op |-> "Clear"]

(* Apply button *)
Apply ==
    /\ ui.at = "idle"
    /\ UNCHANGED <<saved, characters, places, events, date_from, date_to, auto_dates,
                   scale_factor, ui>>
    /\ TabRefresh
    /\ last' = [op |-> "Apply"]

(* Clear button: _clear_filters.  Each clearSelection that changes a selection
   runs _maybe_auto_dates, then _init_date_defaults overwrites the window and
   refresh redraws *)
Clear ==
    /\ ui.at = "idle"
    /\ date_from' = InitDateDefaults(events)[1]
    /\ date_to' = InitDateDefaults(events)[2]
    /\ UNCHANGED <<saved, characters, places, events, auto_dates, scale_factor, ui>>
    /\ TabRefresh
    /\ last' = [op |-> "Clear"]

----------------------------------------------------------------------------
(* The filter specification: selection changes, Apply and Clear from every
   date window and auto dates setting the user can have put *)

InitView ==
    \E evs \in ViewEventLists, f \in Days, t \in Days, a \in BOOLEAN :
        Applied(evs, f, t, a, <<1, 1>>)

NextView ==
    \/ \E c \in CharNames : ToggleChar(c)
    \/ \E p \in PlaceNames : TogglePlace(p)
    \/ Apply
    \/ Clear

SpecView == InitView /\ [][NextView]_vars

----------------------------------------------------------------------------
(* PrettyTimelineView: zoom handlers.  scale_factor is multiplied or divided
   by step = 1.25 = 5/4; the guards keep it within MaxZoomSteps steps of 1 *)

Scaled(z, n, d) ==
    LET a == z[1] * n
        b == z[2] * d
    IN  <<a \div GCD(a, b), b \div GCD(a, b)>>

(* (4/5)^MaxZoomSteps <= z <= (5/4)^MaxZoomSteps *)
InZoomRange(z) ==
    /\ z[1] * Pow(4, MaxZoomSteps) <= Pow(5, MaxZoomSteps) * z[2]
    /\ z[1] * Pow(5, MaxZoomSteps) >= Pow(4, MaxZoomSteps) * z[2]

ZoomIn ==
    /\ ui.at = "idle"
    /\ InZoomRange(scale_factor)
    /\ InZoomRange(Scaled(scale_factor, 5, 4))
    /\ scale_factor' = Scaled(scale_factor, 5, 4)
    /\ scene' = GraphRefresh(events, characters, places, sel_chars, sel_places,
                             date_from, date_to, scale_factor')
    /\ last' = [op |-> "ZoomIn"]
    /\ UNCHANGED <<saved, characters, places, events, sel_chars, sel_places, date_from,
                   date_to, auto_dates, ui>>

ZoomOut ==
    /\ ui.at = "idle"
    /\ InZoomRange(scale_factor)
    /\ InZoomRange(Scaled(scale_factor, 4, 5))
    /\ scale_factor' = Scaled(scale_factor, 4, 5)
    /\ scene' = GraphRefresh(events, characters, places, sel_chars, sel_places,
                             date_from, date_to, scale_factor')
    /\ last' = [op |-> "ZoomOut"]
    /\ UNCHANGED <<saved, characters, places, events, sel_chars, sel_places, date_from,
                   date_to, auto_dates, ui>>

ResetZoom ==
    /\ ui.at = "idle"
    /\ scale_factor' = <<1, 1>>
    /\ scene' = GraphRefresh(events, characters, places, sel_chars, sel_places,
                             date_from, date_to, scale_factor')
    /\ last' = [op |-> "ResetZoom"]
    /\ UNCHANGED <<saved, characters, places, events, sel_chars, sel_places, date_from,
                   date_to, auto_dates, ui>>

----------------------------------------------------------------------------
(* The layout specification: the layout pass over loaded event lists at every
   zoom step, with and without a character selection *)

LayoutTitles == <<"e1", "e2">>

LayoutEventData ==
    {[start_date |-> sd, end_date |-> ed, characters |-> c, places |-> p] :
        sd \in Days, ed \in Days \cup {EmptyStr},
        c \in {<<>>, <<"Alice">>},
        p \in {<<>>, <<"Castle">>, <<"Castle", "Forest">>}}

(* the scenario of three single-day events in "Castle" *)
ScenarioDays == {1, 2, 5}

ScenarioEventData ==
    {[start_date |-> sd, end_date |-> EmptyStr, characters |-> <<>>,
      places |-> <<"Castle">>] : sd \in ScenarioDays}

LayoutEventLists ==
    ListsOver(LayoutEventData, Len(LayoutTitles))
        \cup ListsOver(ScenarioEventData, Cardinality(ScenarioDays))

InitLayout == \E evs \in LayoutEventLists : Loaded(evs)

NextLayout ==
    \/ ZoomIn
    \/ ZoomOut
    \/ ResetZoom
    \/ \E c \in CharNames : ToggleChar(c)

SpecLayout == InitLayout /\ [][NextLayout]_vars

(* The stacking specification: up to MaxStack single-day events that share
   a lane, a day, or neither *)

StackSlots == {<<1, "Castle">>, <<1, "Forest">>, <<2, "Castle">>}

StackEventData ==
    {[start_date |-> sl[1], end_date |-> EmptyStr, characters |-> <<>>,
      places |-> <<sl[2]>>] : sl \in StackSlots}

InitStack == \E evs \in ListsOver(StackEventData, MaxStack) : Loaded(evs)

NextStack ==
    \/ ZoomIn
    \/ ZoomOut
    \/ ResetZoom

SpecStack == InitStack /\ [][NextStack]_vars

(* The level-of-detail specification: _lod at every zoom factor n/100 up to
   MaxZoom100/100, and at those the zoom handlers reach from there *)

ZoomInputs == {<<n, 100>> : n \in 1..MaxZoom100}

InitLod ==
    \E z \in ZoomInputs, evs \in ListsOver(ScenarioEventData, 1) :
        Applied(evs, InitDateDefaults(evs)[1], InitDateDefaults(evs)[2], TRUE, z)

SpecLod == InitLod /\ [][NextStack]_vars

----------------------------------------------------------------------------
(* Editing an event from its card: info icon, menu, dialog *)

(* the positions in evs of the events _get_events_filtered returns, in order *)
FilteredIndices(evs, selp, from, to) ==
    SelectSeq([i \in 1..Len(evs) |-> i],
              LAMBDA i : WithinDates(evs[i], from, to) /\ PlaceOk(evs[i], selp))

(* faulty variant: mousePressEvent calls the callback itself *)
ClickInfoDirect(k) ==
    /\ ui.at = "idle"
    /\ k \in 1..Len(scene.cards)
    /\ ui' = [at |-> "menu", ev_index |-> scene.cards[k].ev_index]
    /\ last' = [op |-> "ClickInfo"]
    /\ UNCHANGED <<saved, characters, places, events, sel_chars, sel_places,
                   date_from, date_to, auto_dates, scale_factor, scene>>

(* ClickableEllipseItem.mousePressEvent on the info icon of card k: the
   callback is queued with a zero timer and nothing else happens *)
ClickInfo(k) ==
    /\ ui.at = "idle"
    /\ k \in 1..Len(scene.cards)
    /\ ui' = [at |-> "pending", ev_index |-> scene.cards[k].ev_index]
    /\ last' = [op |-> "ClickInfo"]
    /\ UNCHANGED <<saved, characters, places, events, sel_chars, sel_places,
                   date_from, date_to, auto_dates, scale_factor, scene>>

(* the zero timer fires: _on_info_clicked opens the menu *)
FireTimer ==
    /\ ui.at = "pending"
    /\ ui' = [at |-> "menu", ev_index |-> ui.ev_index]
    /\ last' = [op |-> "FireTimer"]
    /\ UNCHANGED <<saved, characters, places, events, sel_chars, sel_places,
                   date_from, date_to, auto_dates, scale_factor, scene>>

(* menu.exec returns None *)
DismissMenu ==
    /\ ui.at = "menu"
    /\ ui' = [at |-> "idle"]
    /\ last' = [op |-> "DismissMenu"]
    /\ UNCHANGED <<saved, characters, places, events, sel_chars, sel_places,
                   date_from, date_to, auto_dates, scale_factor, scene>>

(* a menu entry is chosen: _edit_characters, _edit_places or _edit_dates looks
   the index up in get_events_fn() and opens its dialog on that event, or
   returns when the index is out of range *)
ChooseEdit(kind) ==
    /\ ui.at = "menu"
    /\ LET shown == FilteredIndices(events, sel_places, date_from, date_to)
       IN  ui' = IF ui.ev_index < 0 \/ ui.ev_index >= Len(shown)
                 THEN [at |-> "idle"]
                 ELSE [at |-> kind, ev |-> shown[ui.ev_index + 1]]
    /\ last' = [op |-> "ChooseEdit"]
    /\ UNCHANGED <<saved, characters, places, events, sel_chars, sel_places,
                   date_from, date_to, auto_dates, scale_factor, scene>>

(* faulty variant: a cancelled dialog still refreshes and notifies *)
RejectDialogNotifying ==
    /\ ui.at \in {"chars", "places", "dates"}
    /\ ui' = [at |-> "idle"]
    /\ last' = [op |-> "RejectDialog"]
    /\ UNCHANGED <<characters, places, events, date_from, date_to, auto_dates,
                   scale_factor>>
    /\ TabRefresh
    /\ saved' = [characters |-> characters, places |-> places, events |-> events]

(* the dialog is cancelled *)
RejectDialog ==
    /\ ui.at \in {"chars", "places", "dates"}
    /\ ui' = [at |-> "idle"]
    /\ last' = [op |-> "RejectDialog"]
    /\ UNCHANGED <<saved, characters, places, events, sel_chars, sel_places,
                   date_from, date_to, auto_dates, scale_factor, scene>>

(* MainWindow._save_now *)
SaveNow ==
    saved' = [characters |-> characters', places |-> places', events |-> events']

(* faulty variant: the view is refreshed but nothing is saved *)
EventEditedNoSave ==
    /\ UNCHANGED <<characters, places, date_from, date_to, auto_dates,
                   scale_factor, saved>>
    /\ TabRefresh

(* after the event is written: self.refresh(), then on_event_edited, which
   is TimelineTab._on_event_edited: refresh and data_changed, connected to
   _save_now *)
EventEdited ==
    /\ UNCHANGED <<characters, places, date_from, date_to, auto_dates,
                   scale_factor>>
    /\ TabRefresh
    /\ SaveNow

(* faulty variant: every pair of dates is taken *)
DatesAcceptedAlways(s, t) == s = s /\ t = t

(* faulty variant: the comparison is the wrong way round *)
DatesAcceptedReversed(s, t) == ~(s < t)

(* _edit_dates takes the pair unless t < s *)
DatesAccepted(s, t) == ~(t < s)

(* Ok in the dates dialog with start s and end t *)
AcceptDates(s, t) ==
    /\ ui.at = "dates"
    /\ ui' = [at |-> "idle"]
    /\ last' = [op |-> "AcceptDates", ev |-> ui.ev,
                old |-> <<events[ui.ev].start_date, events[ui.ev].end_date>>,
                ordered |-> s <= t]
    /\ IF DatesAccepted(s, t)
       THEN /\ events' = [events EXCEPT ![ui.ev].start_date = DateToString(s),
                                        ![ui.ev].end_date = DateToString(t)]
            /\ EventEdited
       ELSE UNCHANGED <<saved, characters, places, events, sel_chars,
                        sel_places, date_from, date_to, auto_dates,
                        scale_factor, scene>>

(* Ok in the characters dialog with the names S selected *)
AcceptChars(S) ==
    /\ ui.at = "chars"
    /\ ui' = [at |-> "idle"]
    /\ last' = [op |-> "AcceptChars"]
    /\ events' = [events EXCEPT ![ui.ev].characters = InOrder(characters, S)]
    /\ EventEdited

(* Ok in the places dialog with the names S selected *)
AcceptPlaces(S) ==
    /\ ui.at = "places"
    /\ ui' = [at |-> "idle"]
    /\ last' = [op |-> "AcceptPlaces"]
    /\ events' = [events EXCEPT ![ui.ev].places = InOrder(places, S)]
    /\ EventEdited

(* The editing specification: loaded projects of up to two events, edited
   from their cards *)

EditTitles == <<"e1", "e2">>

EditEventData ==
    {Event("", sd, ed, <<>>, <<"Castle">>) :
        sd \in Days, ed \in Days \cup {EmptyStr}}

Init == \E evs \in ListsOver(EditEventData, Len(EditTitles)) : Loaded(evs)

Next ==
    \/ \E k \in 1..(2 * Len(EditTitles)) : ClickInfo(k)
    \/ FireTimer
    \/ DismissMenu
    \/ \E kind \in {"chars", "places", "dates"} : ChooseEdit(kind)
    \/ RejectDialog
    \/ \E s \in Days, t \in Days : AcceptDates(s, t)
    \/ \E S \in SUBSET CharNames : AcceptChars(S)
    \/ \E S \in SUBSET PlaceNames : AcceptPlaces(S)

Spec == Init /\ [][Next]_vars

(* The card-width specification: events of one day, of six days and of
   thirty-nine days, at every zoom step *)

WidthEnds == {EmptyStr, 1, 7, 40}

WidthEventData ==
    {[start_date |-> sd, end_date |-> ed, characters |-> <<>>,
      places |-> <<"Castle">>] : sd \in Days, ed \in WidthEnds}

InitWidth == \E evs \in ListsOver(WidthEventData, 2) : Loaded(evs)

SpecWidth == InitWidth /\ [][NextStack]_vars

(* The undated-event specification: events whose start date is missing or
   unparseable, with and without an end date, next to dated ones *)

UndatedEventData ==
    {[start_date |-> sd, end_date |-> ed, characters |-> <<>>,
      places |-> <<"Castle">>] :
        sd \in Days \cup {EmptyStr, BadStr}, ed \in {EmptyStr, 1}}

InitUndated == \E evs \in ListsOver(UndatedEventData, 2) : Loaded(evs)

SpecUndated == InitUndated /\ [][NextStack]_vars

----------------------------------------------------------------------------
(* The entity tabs: CharactersTab, PlacesTab and EventsTab, wired to the
   timeline and to _save_now in MainWindow._load_state_into_ui *)

(* what follows data_changed of a tab: TimelineTab.refresh and _save_now *)
EntitiesChanged ==
    /\ UNCHANGED <<date_from, date_to, auto_dates, scale_factor, ui>>
    /\ TabRefresh
    /\ SaveNow

(* nothing is changed: the form returned None or the name is taken *)
NoChange ==
    UNCHANGED <<saved, characters, places, events, sel_chars, sel_places,
                date_from, date_to, auto_dates, scale_factor, scene, ui>>

(* the name n is in the list *)
Taken(names, n) == \E i \in 1..Len(names) : names[i] = n

(* _edit: self.chars[idx] = ch, self.places[idx] = pl *)
Renamed(names, idx, n) == [names EXCEPT ![idx] = n]

(* CharactersTab._add with the name n in the form *)
AddCharacter(n) ==
    /\ ui.at = "idle"
    /\ Len(characters) < Cardinality(CharNames)
    /\ last' = [op |-> "AddCharacter"]
    /\ IF n = "" \/ Taken(characters, n) THEN NoChange
       ELSE /\ characters' = Append(characters, n)
            /\ UNCHANGED <<places, events>>
            /\ EntitiesChanged

(* CharactersTab._edit of row idx with the name n in the form *)
EditCharacter(idx, n) ==
    /\ ui.at = "idle"
    /\ idx \in 1..Len(characters)
    /\ last' = [op |-> "EditCharacter"]
    /\ IF n = "" THEN NoChange
       ELSE /\ characters' = Renamed(characters, idx, n)
            /\ UNCHANGED <<places, events>>
            /\ EntitiesChanged

(* CharactersTab._delete of row idx *)
DeleteCharacter(idx) ==
    /\ ui.at = "idle"
    /\ idx \in 1..Len(characters)
    /\ last' = [op |-> "DeleteCharacter"]
    /\ characters' = [i \in 1..(Len(characters) - 1) |->
                          IF i < idx THEN characters[i] ELSE characters[i + 1]]
    /\ UNCHANGED <<places, events>>
    /\ EntitiesChanged

(* PlacesTab._add with the name n in the form *)
AddPlace(n) ==
    /\ ui.at = "idle"
    /\ Len(places) < Cardinality(PlaceNames)
    /\ last' = [op |-> "AddPlace"]
    /\ IF n = "" \/ Taken(places, n) THEN NoChange
       ELSE /\ places' = Append(places, n)
            /\ UNCHANGED <<characters, events>>
            /\ EntitiesChanged

(* PlacesTab._edit of row idx with the name n in the form *)
EditPlace(idx, n) ==
    /\ ui.at = "idle"
    /\ idx \in 1..Len(places)
    /\ last' = [op |-> "EditPlace"]
    /\ IF n = "" THEN NoChange
       ELSE /\ places' = Renamed(places, idx, n)
            /\ UNCHANGED <<characters, events>>
            /\ EntitiesChanged

(* PlacesTab._delete of row idx *)
DeletePlace(idx) ==
    /\ ui.at = "idle"
    /\ idx \in 1..Len(places)
    /\ last' = [op |-> "DeletePlace"]
    /\ places' = [i \in 1..(Len(places) - 1) |->
                      IF i < idx THEN places[i] ELSE places[i + 1]]
    /\ UNCHANGED <<characters, events>>
    /\ EntitiesChanged

(* EventForm.get_result: both dates are date texts, the characters and
   places are the selected names in list order *)
FormEvent(title, sd, ed, selc, selp) ==
    Event(title, DateToString(sd), DateToString(ed),
          InOrder(characters, selc), InOrder(places, selp))

(* EventsTab._add with the event ev in the form *)
AddEvent(ev) ==
    /\ ui.at = "idle"
    /\ Len(events) < Len(ViewTitles)
    /\ last' = [op |-> "AddEvent"]
    /\ IF ev.title = "" \/ \E i \in 1..Len(events) : events[i].title = ev.title
       THEN NoChange
       ELSE /\ events' = Append(events, ev)
            /\ UNCHANGED <<characters, places>>
            /\ EntitiesChanged

(* EventsTab._edit of row idx with the event ev in the form *)
EditEvent(idx, ev) ==
    /\ ui.at = "idle"
    /\ idx \in 1..Len(events)
    /\ last' = [op |-> "EditEvent"]
    /\ IF ev.title = "" THEN NoChange
       ELSE /\ events' = [events EXCEPT ![idx] = ev]
            /\ UNCHANGED <<characters, places>>
            /\ EntitiesChanged

(* EventsTab._delete of row idx *)
DeleteEvent(idx) ==
    /\ ui.at = "idle"
    /\ idx \in 1..Len(events)
    /\ last' = [op |-> "DeleteEvent"]
    /\ events' = [i \in 1..(Len(events) - 1) |->
                      IF i < idx THEN events[i] ELSE events[i + 1]]
    /\ UNCHANGED <<characters, places>>
    /\ EntitiesChanged

(* The tabs specification: projects loaded from data.json, which may hold a
   place with an empty name, changed through the three tabs *)

LoadedPlaceLists == {<<>>, <<"Castle">>, <<"", "Castle">>, <<"Castle", "Forest">>}

LoadedCharLists == {<<>>, <<"Alice">>, <<"Alice", "Bob">>}

TabEventData ==
    {[start_date |-> Today, end_date |-> EmptyStr, characters |-> <<>>,
      places |-> p] : p \in {<<>>, <<"Castle">>}}

FormTitles == {"", "e1", "e2"}

FormEvents ==
    {FormEvent(t, Today, Today, {}, selp) :
        t \in FormTitles, selp \in {{}, {"Castle"}}}

InitTabs ==
    \E chars \in LoadedCharLists, pls \in LoadedPlaceLists,
       evs \in ListsOver(TabEventData, Len(ViewTitles)) :
        LoadedWith(chars, pls, evs)

NextTabs ==
    \/ \E n \in CharNames \cup {""} : AddCharacter(n)
    \/ \E idx \in 1..Cardinality(CharNames), n \in CharNames \cup {""} :
           EditCharacter(idx, n)
    \/ \E idx \in 1..Cardinality(CharNames) : DeleteCharacter(idx)
    \/ \E n \in PlaceNames \cup {""} : AddPlace(n)
    \/ \E idx \in 1..Cardinality(PlaceNames), n \in PlaceNames \cup {""} :
           EditPlace(idx, n)
    \/ \E idx \in 1..Cardinality(PlaceNames) : DeletePlace(idx)
    \/ \E ev \in FormEvents : AddEvent(ev)
    \/ \E idx \in 1..Len(ViewTitles), ev \in FormEvents : EditEvent(idx, ev)
    \/ \E idx \in 1..Len(ViewTitles) : DeleteEvent(idx)

SpecTabs == InitTabs /\ [][NextTabs]_vars

----------------------------------------------------------------------------
(* The view-state specification: every control of the timeline tab, the zoom
   buttons and the deletion of an event, from loaded projects *)

StateEventData ==
    {[start_date |-> sd, end_date |-> EmptyStr, characters |-> c,
      places |-> <<"Castle">>] : sd \in Days, c \in {<<>>, <<"Alice">>}}

InitState == \E evs \in ListsOver(StateEventData, Len(ViewTitles)) : Loaded(evs)

NextState ==
    \/ ToggleChar("Alice")
    \/ TogglePlace("Castle")
    \/ \E d \in Days : SetDateFrom(d)
    \/ \E d \in Days : SetDateTo(d)
    \/ ToggleAutoDates
    \/ Apply
    \/ Clear
    \/ ZoomIn
    \/ ResetZoom
    \/ \E idx \in 1..Len(ViewTitles) : DeleteEvent(idx)

SpecState == InitState /\ [][NextState]_vars

----------------------------------------------------------------------------
(* The cancel specification: edits started from a card while characters are
   selected in the filter, so that a refresh of the tab would show *)

CancelEventData ==
    {Event("", sd, ed, <<"Alice">>, <<"Castle">>) :
        sd \in Days, ed \in Days \cup {EmptyStr, BadStr}}

InitCancel == \E evs \in ListsOver(CancelEventData, Len(EditTitles)) : Loaded(evs)

NextCancel ==
    \/ \E c \in CharNames : ToggleChar(c)
    \/ \E k \in 1..(2 * Len(EditTitles)) : ClickInfo(k)
    \/ FireTimer
    \/ DismissMenu
    \/ \E kind \in {"chars", "places", "dates"} : ChooseEdit(kind)
    \/ RejectDialog
    \/ \E s \in Days, t \in Days : AcceptDates(s, t)
    \/ \E S \in {{}, {"Alice"}} : AcceptChars(S)
    \/ \E S \in {{"Castle"}, {"Castle", "Forest"}} : AcceptPlaces(S)

SpecCancel == InitCancel /\ [][NextCancel]_vars

----------------------------------------------------------------------------
(* The lanes specification: projects whose place list is in either order,
   with events in one or both places; the zoom buttons, the place filter,
   and the removal and renaming of places and the removal of events *)

LanePlaceLists == {<<"Castle", "Forest">>, <<"Forest", "Castle">>}

LaneEventData ==
    {[start_date |-> sd, end_date |-> EmptyStr, characters |-> <<>>,
      places |-> p] :
        sd \in Days, p \in {<<"Castle">>, <<"Castle", "Forest">>,
                            <<"Forest", "Castle">>}}

InitLanes ==
    \E pls \in LanePlaceLists, evs \in ListsOver(LaneEventData, Len(ViewTitles)) :
        LoadedWith(<<>>, pls, evs)

NextLanes ==
    \/ ZoomIn
    \/ ZoomOut
    \/ ResetZoom
    \/ \E p \in PlaceNames : TogglePlace(p)
    \/ \E idx \in 1..Cardinality(PlaceNames), n \in PlaceNames : EditPlace(idx, n)
    \/ \E idx \in 1..Cardinality(PlaceNames) : DeletePlace(idx)
    \/ \E idx \in 1..Len(ViewTitles) : DeleteEvent(idx)

SpecLanes == InitLanes /\ [][NextLanes]_vars

----------------------------------------------------------------------------
(* The click specification: the date window is edited, with or without
   Apply, and an event is then edited from its card *)

ClickEventData ==
    {Event("", sd, EmptyStr, <<>>, <<"Castle">>) : sd \in Days}

InitClick == \E evs \in ListsOver(ClickEventData, Len(EditTitles)) : Loaded(evs)

NextClick ==
    \/ \E d \in Days : SetDateFrom(d)
    \/ \E d \in Days : SetDateTo(d)
    \/ Apply
    \/ \E k \in 1..Len(EditTitles) : ClickInfo(k)
    \/ FireTimer
    \/ DismissMenu
    \/ ChooseEdit("dates")
    \/ RejectDialog
    \/ \E s \in Days, t \in Days : AcceptDates(s, t)

SpecClick == InitClick /\ [][NextClick]_vars

----------------------------------------------------------------------------
(* storage.load_state.  In this part `saved` is the content of data.json as
   json.loads sees it and `last` holds what load_state returned.  A JSON
   value in an entity list is kept as its kind, the key names it contains
   (the keys of an object, the substrings of a string, the members of an
   array: what Python's `in` tests) and the values under "start_date" and
   "date" *)

DEFAULT_CHARACTER == {"description", "color", "texts", "images"}
DEFAULT_PLACE == {"description", "texts", "images"}
DEFAULT_EVENT ==
    {"start_date", "end_date", "images", "characters", "places", "description",
     "title"}

Item(kind, keys, sd, d) ==
    [kind |-> kind, keys |-> keys, start_date |-> sd, date |-> d]

(* an exception raised while patching *)
Raised == Item("raise", {}, EmptyStr, EmptyStr)

(* for k, v in defaults: if k not in c: c[k] = v.  `in` raises on a number,
   item assignment raises on a string and on an array *)
Patched(c, defaults) ==
    IF c.kind = "num" THEN Raised
    ELSE IF defaults \subseteq c.keys THEN c
    ELSE IF c.kind = "dict" THEN [c EXCEPT !.keys = c.keys \cup defaults]
    ELSE Raised

PatchCharacter(c) == Patched(c, DEFAULT_CHARACTER)

PatchPlace(p) == Patched(p, DEFAULT_PLACE)

(* _patch_event: the legacy 'date' key becomes 'start_date' when there is
   none, then the defaults are filled in *)
PatchEvent(e) ==
    IF e.kind = "num" THEN Raised
    ELSE IF "start_date" \notin e.keys /\ "date" \in e.keys
    THEN (IF e.kind = "dict"
          THEN Patched([e EXCEPT !.keys = (e.keys \cup {"start_date"}) \ {"date"},
                                 !.start_date = e.date,
                                 !.date = EmptyStr], DEFAULT_EVENT)
          ELSE Raised)
    ELSE Patched(e, DEFAULT_EVENT)

EmptyState == [characters |-> <<>>, places |-> <<>>, events |-> <<>>]

(* load_state: json.loads fails or the value has no get(); a missing key
   gives [], null is not iterable; any exception gives the empty state *)
LoadState(f) ==
    IF f.kind # "object" THEN EmptyState
    ELSE IF "null" \in {f.characters.kind, f.places.kind, f.events.kind}
    THEN EmptyState
    ELSE LET state ==
                 [characters |-> [i \in 1..Len(f.characters.items) |->
                                      PatchCharacter(f.characters.items[i])],
                  places |-> [i \in 1..Len(f.places.items) |->
                                  PatchPlace(f.places.items[i])],
                  events |-> [i \in 1..Len(f.events.items) |->
                                  PatchEvent(f.events.items[i])]]
         IN  IF \E key \in DOMAIN state : Raised \in Range(state[key])
             THEN EmptyState
             ELSE state

(* The loading specification: data.json missing, not JSON, a JSON value that
   is not an object, or an object whose three lists are missing, null, or
   hold objects, strings, arrays and numbers *)

Field(kind, items) == [kind |-> kind, items |-> items]

FieldsOver(Items, n) ==
    {Field("absent", <<>>), Field("null", <<>>)}
        \cup {Field("list", s) : s \in UNION {[1..k -> Items] : k \in 0..n}}

CharacterItems ==
    {Item("dict", {}, EmptyStr, EmptyStr),
     Item("dict", {"name"}, EmptyStr, EmptyStr),
     Item("dict", {"name"} \cup DEFAULT_CHARACTER, EmptyStr, EmptyStr),
     Item("str", {}, EmptyStr, EmptyStr),
     Item("str", DEFAULT_CHARACTER, EmptyStr, EmptyStr),
     Item("list", DEFAULT_CHARACTER, EmptyStr, EmptyStr),
     Item("num", {}, EmptyStr, EmptyStr)}

PlaceItems ==
    {Item("dict", {"name"}, EmptyStr, EmptyStr),
     Item("str", DEFAULT_PLACE, EmptyStr, EmptyStr),
     Item("num", {}, EmptyStr, EmptyStr)}

EventItems ==
    {Item("dict", {}, EmptyStr, EmptyStr),
     Item("dict", {"title", "date"}, EmptyStr, Today),
     Item("dict", {"title", "date", "start_date"}, BadStr, Today),
     Item("dict", {"title", "start_date"}, Today, EmptyStr),
     Item("str", {"date"}, EmptyStr, EmptyStr),
     Item("str", DEFAULT_EVENT \cup {"date"}, EmptyStr, EmptyStr),
     Item("num", {}, EmptyStr, EmptyStr)}

DataFiles ==
    {[kind |-> k, characters |-> Field("absent", <<>>),
      places |-> Field("absent", <<>>), events |-> Field("absent", <<>>)] :
        k \in {"missing", "invalid", "array"}}
    \cup {[kind |-> "object", characters |-> c, places |-> p, events |-> e] :
            c \in FieldsOver(CharacterItems, MaxItems),
            p \in FieldsOver(PlaceItems, MaxItems),
            e \in FieldsOver(EventItems, MaxItems)}

InitLoad ==
    /\ saved \in DataFiles
    /\ last = [op |-> "init"]
    /\ characters = <<>>
    /\ places = <<>>
    /\ events = <<>>
    /\ sel_chars = {}
    /\ sel_places = {}
    /\ date_from = Today
    /\ date_to = Today
    /\ auto_dates = TRUE
    /\ scale_factor = <<1, 1>>
    /\ scene = Refresh(<<>>, <<>>, <<>>, {}, <<1, 1>>)
    /\ ui = [at |-> "idle"]

(* load_state() is called on the file *)
LoadStateCall ==
    /\ last.op = "init"
    /\ last' = [op |-> "load_state", result |-> LoadState(saved)]
    /\ UNCHANGED <<saved, characters, places, events, sel_chars, sel_places,
                   date_from, date_to, auto_dates, scale_factor, scene, ui>>

SpecLoad == InitLoad /\ [][LoadStateCall]_vars

----------------------------------------------------------------------------
(* Vocabulary of the properties *)

(* the text is a date "yyyy-MM-dd" *)
IsDate(s) == s \notin {EmptyStr, BadStr}

(* the list _get_events_filtered returns in the current state *)
Visible == GetEventsFiltered(events, sel_places, date_from, date_to)

(* the fill of the card is less opaque than it is with no selection *)
Dimmed(card) == card.alpha < FillAlpha(card.ev, {})

(* the events that match a character and place selection *)
Matching(selc, selp) ==
    {i \in 1..Len(events) :
        /\ IsDate(events[i].start_date)
        /\ (selc = {} \/ \E c \in selc : c \in Range(events[i].characters))
        /\ (selp = {} \/ \E p \in selp : p \in Range(events[i].places))}

----------------------------------------------------------------------------
(* C1: the visible-event filter returns exactly the events with a parseable
   start date inside the inclusive window [date_from, date_to] whose places
   meet a non-empty place selection, in the order of the event list. *)
C1_FilterExact ==
    LET keep == {i \in 1..Len(events) :
                    /\ IsDate(events[i].start_date)
                    /\ date_from <= events[i].start_date
                    /\ events[i].start_date <= date_to
                    /\ (sel_places = {} \/
                        \E p \in sel_places : p \in Range(events[i].places))}
    IN  Visible = Pick(events, keep, 1)

(* C1 witness: a place selection is active, the window is a single day or
   wider, one event sits on the last day of the window and is kept, and
   another dated event is left out *)
C1_Witness ==
    /\ sel_places # {}
    /\ \E i \in 1..Len(events) :
          /\ events[i].start_date = date_to
          /\ events[i] \in Range(Visible)
    /\ \E j \in 1..Len(events) :
          /\ IsDate(events[j].start_date)
          /\ events[j] \notin Range(Visible)

(* C2 as claimed: a character-selection change, auto dates on or off, leaves
   the list of events handed to the layout as it was. *)
C2_SelectionKeepsVisible ==
    [][last'.op = "ToggleChar" => Visible' = Visible]_vars

(* C2 amended: with auto dates off a character-selection change leaves the
   list of events handed to the layout as it was; with auto dates on it
   recomputes the date window, and the only events that leave the list are
   those whose start date is outside the new window. *)
C2_SelectionKeepsVisibleInWindow ==
    [][last'.op = "ToggleChar" =>
          /\ ~auto_dates => Visible' = Visible
          /\ \A e \in Range(Visible) :
                (date_from' <= e.start_date /\ e.start_date <= date_to')
                    => e \in Range(Visible')]_vars

(* C2 witness: a character is selected, auto dates is off, and an event
   that has none of the selected characters is still in the list *)
C2_Witness ==
    /\ last.op = "ToggleChar"
    /\ ~auto_dates
    /\ sel_chars # {}
    /\ \E e \in Range(Visible) : Range(e.characters) \cap sel_chars = {}

(* C3: in every layout pass a card is dimmed exactly when the character
   selection of the pass is not empty and holds none of the event's
   characters, an event without characters included. *)
C3_DimmedIffUnselected ==
    \A k \in 1..Len(scene.cards) :
        Dimmed(scene.cards[k]) <=>
            (scene.selected # {} /\
             Range(scene.cards[k].ev.characters) \cap scene.selected = {})

(* C4: in a layout pass no two cards of one (lane, start day) group have
   the same top-left corner, however many events share the lane and day. *)
C4_StackedCardsDistinct ==
    \A a, b \in 1..Len(scene.cards) :
        (/\ a < b
         /\ scene.cards[a].row = scene.cards[b].row
         /\ scene.cards[a].day = scene.cards[b].day)
            => <<scene.cards[a].x2, scene.cards[a].y>>
                   # <<scene.cards[b].x2, scene.cards[b].y>>

(* the rectangles of two cards have a point in common *)
Overlap(c, d) ==
    /\ c.x2 < d.x2 + d.w2
    /\ d.x2 < c.x2 + c.w2
    /\ c.y < d.y + d.h
    /\ d.y < c.y + c.h

(* C5: at the week-tick LOD, cards of one lane with distinct start days lie
   at strictly increasing x in start-date order and do not overlap; the
   scenario is three single-day events on days 1, 2 and 5 in "Castle". *)
C5_DistinctDaysNoOverlap ==
    scene.lod.tick_days = 7 =>
        \A a, b \in 1..Len(scene.cards) :
            (/\ scene.cards[a].row = scene.cards[b].row
             /\ scene.cards[a].day < scene.cards[b].day)
                => /\ scene.cards[a].x2 < scene.cards[b].x2
                   /\ ~Overlap(scene.cards[a], scene.cards[b])

(* days from the start date to the end date of an event with both dates *)
Duration(ev) == ParseDate(ev.end_date) - ParseDate(ev.start_date)

(* C7: a reschedule committed from the timeline keeps the duration of an
   event that had an end date distinct from its start date. *)
C7_DurationPreserved ==
    [][(last'.op = "AcceptDates" /\ events' # events
            /\ IsDate(last'.old[2]) /\ last'.old[2] # last'.old[1])
        => Duration(events'[last'.ev])
               = ParseDate(last'.old[2]) - ParseDate(last'.old[1])]_vars

(* C7, as the code has it: Ok in the dates dialog either leaves every event
   as it was, or writes to the edited event the two dates chosen, the end
   not before the start, and leaves the other events and fields as they
   were; the duration is whatever the two chosen dates make it. *)
C7_DatesAsChosen ==
    [][last'.op = "AcceptDates"
        => \/ events' = events
           \/ \E s \in Days, t \in Days :
                  /\ s <= t
                  /\ events' = [events EXCEPT
                                    ![last'.ev].start_date = DateToString(s),
                                    ![last'.ev].end_date = DateToString(t)]]_vars

(* C7 witness: a committed edit of an event with a distinct end date has
   changed its duration *)
C7_Witness ==
    /\ last.op = "AcceptDates"
    /\ IsDate(last.old[2]) /\ last.old[2] # last.old[1]
    /\ <<events[last.ev].start_date, events[last.ev].end_date>> # last.old
    /\ Duration(events[last.ev]) >= 0
    /\ Duration(events[last.ev])
           # ParseDate(last.old[2]) - ParseDate(last.old[1])

(* xToDate of the coordinate mapper: the date at half-pixel position x2,
   rounded to the nearest whole day *)
XToDate(x2, dmin, L) ==
    dmin + (2 * (x2 - 2 * LEFT_MARGIN) * L.tick_days + 2 * StepPx)
               \div (4 * StepPx)

(* C8: at every LOD tier a whole-day date mapped to its x position and back,
   rounding to the nearest day, is the date itself. *)
C8_RoundTrip ==
    ~scene.nodata =>
        \A d \in (Origin(Visible) - 1)..(MaxDay + 2) :
            XToDate(XFor2(d, Origin(Visible), Lod(scale_factor)),
                    Origin(Visible), Lod(scale_factor)) = d

(* C8 witness: at the month-tick tier, where a day is 7.5 pixels wide, a
   multi-day event has been laid out *)
C8_Witness ==
    /\ ~scene.nodata
    /\ Lod(scale_factor).tick_days = 28
    /\ \E k \in 1..Len(scene.cards) : scene.cards[k].band

(* z1 < z2 as rationals *)
Less(z1, z2) == z1[1] * z2[2] < z2[1] * z1[2]

(* the configuration b shows at least the detail of a *)
AtLeastAsDetailed(b, a) ==
    /\ b.thumb >= a.thumb
    /\ a.show_desc => b.show_desc
    /\ a.show_date => b.show_date
    /\ b.max_chips >= a.max_chips
    /\ b.tick_days <= a.tick_days

(* C9: for zoom factors z1 < z2 the LOD of z2 shows at least the detail of
   the LOD of z1. *)
C9_LodMonotonic ==
    \A z \in ZoomInputs :
        /\ Less(z, scale_factor) => AtLeastAsDetailed(Lod(scale_factor), Lod(z))
        /\ Less(scale_factor, z) => AtLeastAsDetailed(Lod(z), Lod(scale_factor))

(* C9 witness: the view is in the middle tier after a zoom step, and there
   are zoom factors of the far and of the near tier to compare with *)
C9_Witness ==
    /\ last.op \in {"ZoomIn", "ZoomOut"}
    /\ Lod(scale_factor).tick_days = 7
    /\ \E z \in ZoomInputs : Less(z, scale_factor) /\ Lod(z).tick_days = 28
    /\ \E z \in ZoomInputs : Less(scale_factor, z) /\ Lod(z).tick_days = 3

(* C10: with auto dates on, a change of the character or place selection
   puts the window to the least and greatest start date of the events that
   match the new selection, whatever the window was, and to today when no
   event matches. *)
C10_AutoWindow ==
    [][(last'.op \in {"ToggleChar", "TogglePlace"} /\ auto_dates) =>
          LET M == Matching(sel_chars', sel_places')
          IN  IF M = {}
              THEN date_from' = Today /\ date_to' = Today
              ELSE /\ \E i \in M : events[i].start_date = date_from'
                   /\ \E i \in M : events[i].start_date = date_to'
                   /\ \A i \in M : /\ date_from' <= events[i].start_date
                                   /\ events[i].start_date <= date_to']_vars

(* C10 witness: auto dates is on, a selection change has run, an event
   matches the selection and gives the window, and a dated event that does
   not match lies outside the window *)
C10_Witness ==
    /\ last.op \in {"ToggleChar", "TogglePlace"}
    /\ auto_dates
    /\ Matching(sel_chars, sel_places) # {}
    /\ \E i \in 1..Len(events) :
          /\ IsDate(events[i].start_date)
          /\ i \notin Matching(sel_chars, sel_places)
          /\ (events[i].start_date < date_from \/ events[i].start_date > date_to)

(* the end date refresh() works with: the start date when the end is
   missing, unparseable or earlier *)
NormEnd(ev) ==
    IF ParseDate(ev.end_date) = None \/ ParseDate(ev.end_date) < ParseDate(ev.start_date)
    THEN ParseDate(ev.start_date)
    ELSE ParseDate(ev.end_date)

(* C11: the width of every card is max(minCardWidth, xEnd - xStart), with
   minCardWidth the card width of the current LOD and xStart, xEnd the
   positions of the start date and the normalized end date; so no card is
   narrower than minCardWidth. *)
C11_CardWidth ==
    \A k \in 1..Len(scene.cards) :
        LET c == scene.cards[k]
            xStart == XFor2(ParseDate(c.ev.start_date), Origin(Visible), scene.lod)
            xEnd == XFor2(NormEnd(c.ev), Origin(Visible), scene.lod)
        IN  /\ c.w2 = Max(2 * scene.lod.event_w, xEnd - xStart)
            /\ c.w2 >= 2 * scene.lod.event_w

(* C11 witness: after a zoom step the scene has a card wider than the
   minimum and a card of exactly the minimum width *)
C11_Witness ==
    /\ last.op \in {"ZoomIn", "ZoomOut"}
    /\ \E k \in 1..Len(scene.cards) : scene.cards[k].w2 > 2 * scene.lod.event_w
    /\ \E k \in 1..Len(scene.cards) :
           /\ scene.cards[k].w2 = 2 * scene.lod.event_w
           /\ scene.cards[k].band

(* the events with a parseable start date *)
Dated(evs) == SelectSeq(evs, LAMBDA e : ParseDate(e.start_date) # None)

(* C12: an event without a parseable start date is left out of the layout:
   no card is made for it, and the scene is the one the pass makes when
   that event is not in the event list at all, also when the event has a
   parseable end date. *)
C12_UndatedExcluded ==
    /\ \A k \in 1..Len(scene.cards) : ParseDate(scene.cards[k].ev.start_date) # None
    /\ scene = GraphRefresh(Dated(events), characters, places, sel_chars,
                            sel_places, date_from, date_to, scale_factor)

(* C12 witness: after a zoom step there is a card, and an event with no
   parseable start date whose end date is before every start date *)
C12_Witness ==
    /\ last.op \in {"ZoomIn", "ZoomOut"}
    /\ Len(scene.cards) >= 1
    /\ \E i \in 1..Len(events) :
           /\ ParseDate(events[i].start_date) = None
           /\ ParseDate(events[i].end_date) # None
           /\ \A k \in 1..Len(scene.cards) :
                  ParseDate(events[i].end_date) < scene.cards[k].day

(* how a layout pass ended: refresh() has two exits, the "No data to
   display" panel and the drawn layout, and raises nothing *)
Outcome(sc) == IF sc.nodata THEN "NoDataPanel" ELSE "Layout"

(* C13: a layout pass with an empty place list and dated events to lay out
   ends with an InvalidLayoutParameter error. *)
C13_EmptyPlacesRaise ==
    (places = <<>> /\ Visible # <<>>)
        => Outcome(scene) = "InvalidLayoutParameter"

(* C13, as the code has it: with an empty place list the layout pass ends
   normally with the "No data to display" panel and no card. *)
C13_EmptyPlacesNoData ==
    places = <<>> => (Outcome(scene) = "NoDataPanel" /\ scene.cards = <<>>)

(* C13 witness: the last place has been deleted while a dated event is in
   the date window *)
C13_Witness ==
    /\ last.op = "DeletePlace"
    /\ places = <<>>
    /\ Visible # <<>>

(* C14: an event with no places gets no card in any layout pass, whatever
   the place list holds, a place with the empty name included. *)
C14_NoPlacesNoCard ==
    \A k \in 1..Len(scene.cards) : scene.cards[k].ev.places # <<>>

(* no entry of the list occurs twice *)
Unique(names) ==
    \A i, j \in 1..Len(names) : names[i] = names[j] => i = j

(* C15: after any sequence of add, edit and delete in the three tabs,
   starting from lists without duplicates, no two characters have the same
   name, no two places have the same name and no two events have the same
   title. *)
C15_NamesUnique ==
    /\ Unique(characters)
    /\ Unique(places)
    /\ Unique([i \in 1..Len(events) |-> events[i].title])

(* the scene a layout pass makes of the current entities and view state *)
Fresh ==
    GraphRefresh(events, characters, places, sel_chars, sel_places,
                 date_from, date_to, scale_factor)

(* C16: after any sequence of entity mutations and view-state changes the
   last layout pass was computed from the current entities, selection, date
   window and zoom. *)
C16_SceneCurrent == scene = Fresh

(* C16, as the code has it: a mutation of an entity list, a zoom step, Apply
   and Clear end with a layout pass over the state they leave; a selection
   change does so when auto dates is on and leaves the scene as it was when
   it is off; a change of date_from, of date_to or of the auto dates box
   leaves the scene as it was. *)
C16_RedrawOnTriggers ==
    [][IF last'.op \in {"SetDateFrom", "SetDateTo", "ToggleAutoDates"}
           \/ (last'.op \in {"ToggleChar", "TogglePlace"} /\ ~auto_dates)
       THEN scene' = scene
       ELSE scene' = GraphRefresh(events', characters', places', sel_chars',
                                  sel_places', date_from', date_to',
                                  scale_factor')]_vars

(* C16 witness: the user has moved date_from and the scene still shows an
   event that is outside the new window *)
C16_Witness ==
    /\ last.op = "SetDateFrom"
    /\ scene # Fresh
    /\ \E k \in 1..Len(scene.cards) : scene.cards[k].day < date_from

(* C17: a refresh of the timeline tab (the Apply button runs exactly
   TimelineTab.refresh) leaves the event, character and place lists, the
   zoom factor, the date window and both selections as they were. *)
C17_RefreshKeepsState ==
    [][last'.op = "Apply"
        => UNCHANGED <<events, characters, places, scale_factor, date_from,
                       date_to, sel_chars, sel_places>>]_vars

(* C18: the callback of a press on an info icon does not run inside
   mousePressEvent: the press only schedules it, leaving the events and the
   scene as they are, and the callback (which opens the menu and may edit
   the event and rebuild the scene) runs once, in a later step. *)
C18_CallbackDeferred ==
    [][/\ last'.op = "ClickInfo"
            => (ui'.at = "pending" /\ events' = events /\ scene' = scene)
       /\ (ui'.at = "menu" /\ ui.at # "menu")
            => (ui.at = "pending" /\ last'.op = "FireTimer"
                    /\ ui'.ev_index = ui.ev_index)
       /\ ui.at = "pending" => ui'.at = "menu"]_vars

(* C18 witness: the scheduled callback has run and opened the menu of the
   pressed card *)
C18_Witness ==
    /\ last.op = "FireTimer"
    /\ ui.at = "menu"
    /\ \E k \in 1..Len(scene.cards) : scene.cards[k].ev_index = ui.ev_index

(* C19: an edit started from a card and cancelled, by dismissing the menu or
   rejecting the dialog, changes no event and runs no edited callback (the
   selections, the scene and the saved file stay as they were); a committed
   date edit leaves the event with both its start and its end date set. *)
C19_CancelCommitsNothing ==
    [][/\ last'.op \in {"DismissMenu", "RejectDialog"}
            => /\ ui'.at = "idle"
               /\ UNCHANGED <<events, saved, scene, sel_chars, sel_places,
                              date_from, date_to>>
       /\ (last'.op = "AcceptDates" /\ events' # events)
            => /\ IsDate(events'[last'.ev].start_date)
               /\ IsDate(events'[last'.ev].end_date)
               /\ events'[last'.ev].start_date <= events'[last'.ev].end_date]_vars

(* C19 witness: a dialog has been rejected while a character was selected
   in the filter *)
C19_Witness ==
    /\ last.op = "RejectDialog"
    /\ sel_chars # {}
    /\ Len(scene.cards) >= 1

(* C20: every accepted edit of an event's characters, places or dates made
   from a card is followed, in the same handler, by a redraw of the timeline
   from the edited events and by the edited callback, which refreshes the
   tab (dropping the selections) and has the main window save the lists; no
   change of an event is left without them. *)
C20_EditRefreshesAndSaves ==
    [][(last'.op \in {"AcceptChars", "AcceptPlaces"}
            \/ (last'.op = "AcceptDates" /\ events' # events))
        => /\ scene' = GraphRefresh(events', characters', places', sel_chars',
                                    sel_places', date_from', date_to',
                                    scale_factor')
           /\ sel_chars' = {} /\ sel_places' = {}
           /\ saved' = [characters |-> characters', places |-> places',
                        events |-> events']]_vars

(* C20 witness: an event has been given a second place from its card while
   a character was selected, and the file holds the edited event *)
C20_Witness ==
    /\ last.op = "AcceptPlaces"
    /\ \E i \in 1..Len(events) : events[i].places = <<"Castle", "Forest">>
    /\ saved.events = events
    /\ \E k \in 1..Len(scene.cards) : scene.cards[k].place = "Forest"

(* the number of cards drawn before card k for the same lane and start day *)
EarlierInGroup(k) ==
    Cardinality({j \in 1..(k - 1) :
                    /\ scene.cards[j].row = scene.cards[k].row
                    /\ scene.cards[j].day = scene.cards[k].day})

(* C21: within a (lane, start day) group the cards come in input event
   order; the first is centred on the lane, and the k-th after it is moved
   up for odd k and down for even k by min(k, 3) steps of 16 units. *)
C21_StackingOrder ==
    \A k \in 1..Len(scene.cards) :
        LET c == scene.cards[k]
            n == EarlierInGroup(k)
            centred == TOP_MARGIN + c.row * ROW_H + ROW_H \div 2 - c.h \div 2
        IN  /\ c.y = centred + (IF n = 0 THEN 0
                                ELSE IF n % 2 = 1 THEN 0 - Min(n, 3) * 16
                                ELSE Min(n, 3) * 16)
            /\ \A j \in 1..(k - 1) : scene.cards[j].ev_index <= c.ev_index

(* C21 witness: after a zoom step one group holds six cards, so the cap of
   three steps applies to the last three *)
C21_Witness ==
    /\ last.op \in {"ZoomIn", "ZoomOut"}
    /\ \E k \in 1..Len(scene.cards) : EarlierInGroup(k) = 5

(* the end date of the event is absent, unparseable or before its start *)
EndNotAfterStart(ev) ==
    \/ ParseDate(ev.end_date) = None
    \/ ParseDate(ev.end_date) < ParseDate(ev.start_date)

(* every card of such an event has the minimum width and no duration band *)
LayoutNormalizesEnd(sc) ==
    \A k \in 1..Len(sc.cards) :
        EndNotAfterStart(sc.cards[k].ev)
            => (~sc.cards[k].band /\ sc.cards[k].w2 = 2 * sc.lod.event_w)

(* C22: an end date that is absent, unparseable or before the start date is
   accepted by every operation and treated as the start date: the layout
   gives a minimum-width card without a band, and no operation rejects such
   dates. *)
C22_NormalizedNeverRejected ==
    [][/\ LayoutNormalizesEnd(scene')
       /\ last'.op = "AcceptDates"
            => (events'[last'.ev].start_date # last'.old[1]
                    \/ events'[last'.ev].end_date # last'.old[2]
                    \/ last'.ordered)]_vars

(* C22, as the code has it: the layout treats such an end date as the start
   date, while the dates dialog of a card rejects an end before the start
   and leaves the event, the scene and the file as they were. *)
C22_NormalizedInLayoutRejectedInDialog ==
    [][/\ LayoutNormalizesEnd(scene')
       /\ (last'.op = "AcceptDates" /\ ~last'.ordered)
            => UNCHANGED <<events, scene, saved, sel_chars, sel_places>>]_vars

(* C22 witness: the dialog has refused an end before the start, and the
   scene holds the card of an event stored with its end before its start *)
C22_Witness ==
    /\ last.op = "AcceptDates"
    /\ ~last.ordered
    /\ \E k \in 1..Len(scene.cards) :
           /\ ParseDate(scene.cards[k].ev.end_date) # None
           /\ ParseDate(scene.cards[k].ev.end_date) < scene.cards[k].day

(* C23: after any sequence of zoom_in, zoom_out and reset_zoom the zoom
   factor is strictly positive, the tick interval is 28, 7 or 3 days, and
   the layout places each day 210 / tick_days pixels to the right of the
   day before it, starting one day's width right of the left margin. *)
C23_PixelsPerDay ==
    /\ scale_factor[1] > 0
    /\ scale_factor[2] > 0
    /\ scene.lod.tick_days \in {28, 7, 3}
    /\ \A k \in 1..Len(scene.cards) :
           LET c == scene.cards[k]
           IN  (c.x2 - 2 * LEFT_MARGIN) * scene.lod.tick_days
                   = (c.day - Origin(events)) * 2 * 210

(* C23 witness: zoomed out to the 28-day tier and in to the 3-day tier, each
   with cards on two different days *)
C23_Witness ==
    /\ last.op \in {"ZoomIn", "ZoomOut"}
    /\ scene.lod.tick_days \in {28, 3}
    /\ scale_factor # <<1, 1>>
    /\ \E j, k \in 1..Len(scene.cards) : scene.cards[j].day < scene.cards[k].day

(* the lane of every card of sc is the first position of the card's place
   in the list pls, and a card that is first in its group is centred on
   TOP_MARGIN + index * ROW_H + ROW_H / 2 *)
LanesFollowList(sc, pls) ==
    \A k \in 1..Len(sc.cards) :
        LET c == sc.cards[k]
        IN  /\ c.row + 1 \in 1..Len(pls)
            /\ pls[c.row + 1] = c.place
            /\ \A i \in 1..c.row : pls[i] # c.place
            /\ (\A j \in 1..(k - 1) : sc.cards[j].row # c.row
                                      \/ sc.cards[j].day # c.day)
                 => 2 * c.y + c.h = 2 * (TOP_MARGIN + c.row * ROW_H) + ROW_H

(* C24: the lane of a place is the position of its name in the place list
   and the lane's centre is TOP_MARGIN + index * ROW_H + ROW_H / 2; while the
   place list is unchanged a place keeps its lane from one layout pass to
   the next, whatever the zoom factor, the filters and the events are. *)
C24_LanesStable ==
    [][/\ LanesFollowList(scene, places)
       /\ LanesFollowList(scene', places')
       /\ places' = places
            => \A j \in 1..Len(scene.cards), k \in 1..Len(scene'.cards) :
                   scene.cards[j].place = scene'.cards[k].place
                       => scene.cards[j].row = scene'.cards[k].row]_vars

(* C24 witness: with "Forest" listed before "Castle", a card in the second
   lane after a zoom step *)
C24_Witness ==
    /\ last.op \in {"ZoomIn", "ZoomOut"}
    /\ places = <<"Forest", "Castle">>
    /\ \E k \in 1..Len(scene.cards) :
           scene.cards[k].place = "Castle" /\ scene.cards[k].row = 1

(* the cards drawn for the i-th event handed to the layout in place p *)
CardsOf(i, p) ==
    {k \in 1..Len(scene.cards) :
        scene.cards[k].ev_index = i - 1 /\ scene.cards[k].place = p}

(* C25: a place named by an event but missing from the place list raises no
   error and gives no card for that event and place, while each of the
   event's places that is in the place list gives exactly one card. *)
C25_UnresolvedPlaceSkipped ==
    /\ scene.nodata = (places = <<>> \/ Visible = <<>>)
    /\ \A i \in 1..Len(Visible), p \in PlaceNames :
           Cardinality(CardsOf(i, p))
               = IF p \in Range(Visible[i].places) /\ p \in Range(places)
                 THEN 1 ELSE 0

(* C25 witness: after a place was removed or renamed, an event names a place
   that is gone and another that is listed, and has a card *)
C25_Witness ==
    /\ last.op \in {"DeletePlace", "EditPlace"}
    /\ \E i \in 1..Len(Visible) :
           /\ \E p \in Range(Visible[i].places) : p \notin Range(places)
           /\ \E p \in Range(Visible[i].places) : CardsOf(i, p) # {}

(* C26: the event an edit dialog is opened on from a card's info icon is the
   event the card was drawn for, whatever was done to the filters and the
   date window between the layout pass and the click: the index stored in
   the icon resolves, in the list read at edit time, to that event. *)
C26_EditedIsDrawn ==
    [][last'.op = "ChooseEdit"
         => /\ ui'.at # "idle"
            /\ \A k \in 1..Len(scene.cards) :
                   scene.cards[k].ev_index = ui.ev_index
                       => scene.cards[k].ev = events[ui'.ev]]_vars

(* C27: while auto dates is on, after every selection change, edit of an
   event from its card, Apply, Clear and change of the entity lists, the
   window runs from the least to the greatest start date of the events that
   match the current selection, and is today when no event matches. *)
C27_AutoWindowAlways ==
    auto_dates =>
        LET M == Matching(sel_chars, sel_places)
        IN  IF M = {}
            THEN date_from = Today /\ date_to = Today
            ELSE /\ \E i \in M : events[i].start_date = date_from
                 /\ \E i \in M : events[i].start_date = date_to
                 /\ \A i \in M : /\ date_from <= events[i].start_date
                                 /\ events[i].start_date <= date_to

(* the zoom factor after n net zoom_in steps from 1.0 (zoom_out for n < 0) *)
StepsFactor(n) ==
    IF n >= 0 THEN <<Pow(5, n), Pow(4, n)>> ELSE <<Pow(4, 0 - n), Pow(5, 0 - n)>>

(* the net number of zoom steps that gives the factor z *)
NetSteps(z) ==
    CHOOSE n \in (0 - MaxZoomSteps)..MaxZoomSteps : z = StepsFactor(n)

(* the tick interval the claim gives for n net steps *)
TierOfSteps(n) == IF n = 0 THEN 7 ELSE IF n > 0 THEN 3 ELSE 28

(* C28: the LOD tier depends only on the net number of zoom steps since the
   last reset: reset_zoom gives the factor 1.0 and the week tier, zoom_in
   and zoom_out add and take one step, a positive net number gives the
   3-day tier and a negative one the 28-day tier, so zoom_in followed by
   zoom_out returns to the same factor and tier. *)
C28_TierByNetSteps ==
    [][/\ last'.op = "ResetZoom" => scale_factor' = <<1, 1>>
       /\ last'.op = "ZoomIn"
            => NetSteps(scale_factor') = NetSteps(scale_factor) + 1
       /\ last'.op = "ZoomOut"
            => NetSteps(scale_factor') = NetSteps(scale_factor) - 1
       /\ scene'.lod.tick_days = TierOfSteps(NetSteps(scale_factor'))]_vars

(* C28 witness: a zoom_out has undone a zoom_in, back at the factor 1.0 *)
C28_Witness ==
    /\ last.op = "ZoomOut"
    /\ scale_factor = <<1, 1>>
    /\ scene.lod.tick_days = 7
    /\ scene.cards # <<>>

(* C29: after Clear, from any state and with auto dates on or off, both
   selections are empty, the window runs from the least to the greatest
   parseable start date of all events (today to today when there is none),
   and the layout is drawn from every event with a parseable start date:
   each of them has a card in each of its listed places. *)
C29_ClearShowsAll ==
    [][last'.op = "Clear" =>
          LET D == {i \in 1..Len(events') : IsDate(events'[i].start_date)}
          IN  /\ sel_chars' = {} /\ sel_places' = {}
              /\ IF D = {}
                 THEN date_from' = Today /\ date_to' = Today
                 ELSE /\ \E i \in D : events'[i].start_date = date_from'
                      /\ \E i \in D : events'[i].start_date = date_to'
                      /\ \A i \in D : /\ date_from' <= events'[i].start_date
                                      /\ events'[i].start_date <= date_to'
              /\ GetEventsFiltered(events', sel_places', date_from', date_to')
                     = Dated(events')
              /\ \A i \in D : \A p \in Range(events'[i].places) \cap Range(places') :
                     \E k \in 1..Len(scene'.cards) :
                         /\ scene'.cards[k].ev = events'[i]
                         /\ scene'.cards[k].place = p
                         /\ scene'.cards[k].alpha >= 200]_vars

(* C29 witness: Clear has run with auto dates off, and two events on
   different days are both drawn *)
C29_Witness ==
    /\ last.op = "Clear"
    /\ ~auto_dates
    /\ date_from < date_to
    /\ \E j, k \in 1..Len(scene.cards) : scene.cards[j].day < scene.cards[k].day

(* data.json is a JSON object whose three lists, where present, hold objects *)
ExpectedShape(f) ==
    /\ f.kind = "object"
    /\ \A fld \in {f.characters, f.places, f.events} :
           /\ fld.kind # "null"
           /\ \A i \in 1..Len(fld.items) : fld.items[i].kind = "dict"

(* C30: load_state never raises on bad project data: when data.json is
   missing, is not JSON or does not have the expected shape, the empty state
   is returned; otherwise every returned character, place and event has all
   its default keys, and an event with a legacy 'date' key and no
   'start_date' has start_date set to that value and 'date' removed. *)
C30_LoadStateTotal ==
    last.op = "load_state" =>
        LET r == last.result
        IN  IF ~ExpectedShape(saved) THEN r = EmptyState
            ELSE /\ Len(r.characters) = Len(saved.characters.items)
                 /\ Len(r.places) = Len(saved.places.items)
                 /\ Len(r.events) = Len(saved.events.items)
                 /\ \A i \in 1..Len(r.characters) :
                        DEFAULT_CHARACTER \subseteq r.characters[i].keys
                 /\ \A i \in 1..Len(r.places) :
                        DEFAULT_PLACE \subseteq r.places[i].keys
                 /\ \A i \in 1..Len(r.events) :
                        LET e == saved.events.items[i]
                        IN  /\ DEFAULT_EVENT \subseteq r.events[i].keys
                            /\ ("date" \in e.keys /\ "start_date" \notin e.keys)
                                 => /\ r.events[i].start_date = e.date
                                    /\ "date" \notin r.events[i].keys

====
